---- MODULE Spec2Model ----
(***************************************************************************)
(* Model of the download pipeline of app.py: the Streamlit form that       *)
(* calls process_download, and process_download itself (configure the      *)
(* engine, run it inside a temporary directory, zip the directory, read    *)
(* the zip into memory, return (success, message, zip_data)).              *)
(*                                                                         *)
(* Python's None is modelled as the empty tuple and a present value x as   *)
(* the one-element tuple <<x>>.  A Python string that the code edits       *)
(* (audio_bitrate) is a sequence of one-character strings.  Sizes are in   *)
(* megabytes.                                                              *)
(***************************************************************************)
EXTENDS Integers, Sequences, FiniteSets, TLC

\* ---------------------------------------------------------------- bounds

\* Items of the playlist the engine may write a file for.
MaxItems == 2
\* Largest value typed into the "Limit # of items" number input.
MaxLimit == 2
\* Number of times the form is submitted in one behaviour.
MaxInvocations == 2

\* ------------------------------------------------------------- constants

\* st.slider("Concurrent Fragments", 1, 10, 4)
SliderMin == 1
SliderMax == 10
SliderDefault == 4

\* The artifact ceiling of the Size Guard, in MB ("e.g. 550 MB").  The code
\* holds no ceiling; the number is the specification's.
CeilingMB == 550

\* ---------------------------------------------------------------- Python

None == <<>>
Some(x) == <<x>>
Get(o) == o[1]

\* bool(limit) as in "if limit:": None and 0 are false.
Truthy(o) == o # None /\ Get(o) # 0

\* s.replace(c, new) for a one-character c.
RECURSIVE StrReplace(_, _, _)
StrReplace(s, c, new) ==
    IF s = <<>> THEN <<>>
    ELSE (IF Head(s) = c THEN new ELSE <<Head(s)>>) \o StrReplace(Tail(s), c, new)

RECURSIVE SumSizes(_, _)
SumSizes(f, names) ==
    IF names = {} THEN 0
    ELSE LET n == CHOOSE m \in names : TRUE
         IN  f[n] + SumSizes(f, names \ {n})

\* ------------------------------------------------------- the form's values

Modes == {"Video", "Audio"}
QualityPresets == {"Best Available", "1080p", "720p", "Worst (Low Data)"}
AudioFormats == {"mp3", "m4a", "wav"}
AudioBitrates == {<<"1", "9", "2", "k">>, <<"3", "2", "0", "k">>, <<"1", "2", "8", "k">>}
ConcurrentChoices == {SliderMin, SliderDefault, SliderMax}
Urls == {"https://example.org/playlist"}

\* Arguments a direct caller of process_download may pass beyond the form's.
OtherModes == {"Podcast"}
OtherPresets == {"4K"}

\* ------------------------------------------------- the engine's behaviour

\* Texts of the exceptions the engine may raise.
EngineErrors == {"ERROR: unsupported URL", "ERROR: unable to download webpage"}
\* Sizes of the media files the engine may write, in MB.
FileSizesMB == {1, 300}
\* Exceptions the archiver or the read of the archive may raise.
IOErrors == {"OSError"}

ZipName == "download_package.zip"
ItemFile(i) == ToString(i) \o " - title.media"

VARIABLES
    pc,            \* position of the script / of process_download
    req,           \* the arguments of the current call
    ffmpeg,        \* whether the media-conversion binary is on the search path
    tmpExists,     \* whether tmp_dir exists
    files,         \* tmp_dir's files: name -> size in MB
    opts,          \* the engine configuration (None before it is built)
    engineCalls,   \* invocations of ydl.download in the current call
    engineError,   \* the text of the exception the engine raised, if any
    zipEntries,    \* names of the entries of the archive, once written
    archiveMB,     \* size of the archive while it exists
    reads,         \* times the archive was read into memory
    trace,         \* stages executed by the current call, in order
    result,        \* the returned (success, message, zip_data), if any
    exc,           \* the exception that escaped process_download, if any
    ui,            \* what the page shows for the current submission
    invocations    \* submissions so far

vars == <<pc, req, ffmpeg, tmpExists, files, opts, engineCalls, engineError,
          zipEntries, archiveMB, reads, trace, result, exc, ui, invocations>>

EmptyDir == [n \in {} |-> 0]

NoReq == [url |-> "", mode |-> "", quality_preset |-> None, audio_format |-> None,
          audio_bitrate |-> None, limit |-> None, concurrent |-> SliderDefault]

Init ==
    /\ pc = "idle"
    /\ req = NoReq
    /\ ffmpeg \in BOOLEAN
    /\ tmpExists = FALSE
    /\ files = EmptyDir
    /\ opts = None
    /\ engineCalls = 0
    /\ engineError = None
    /\ zipEntries = None
    /\ archiveMB = None
    /\ reads = 0
    /\ trace = <<>>
    /\ result = None
    /\ exc = None
    /\ ui = {}
    /\ invocations = 0

\* ------------------------------------------------------------ the form

\* The sidebar: the arguments the form builds for one submission.
FormRequests ==
    { [url |-> u, mode |-> "Video", quality_preset |-> Some(q), audio_format |-> None,
       audio_bitrate |-> None,
       limit |-> IF lv > 0 THEN Some(lv) ELSE None, concurrent |-> c]
        : u \in Urls, q \in QualityPresets, lv \in 0..MaxLimit, c \in ConcurrentChoices }
    \cup
    { [url |-> u, mode |-> "Audio", quality_preset |-> None, audio_format |-> Some(pf[1]),
       audio_bitrate |-> Some(pf[2]),
       limit |-> IF lv > 0 THEN Some(lv) ELSE None, concurrent |-> c]
        : u \in Urls, pf \in AudioFormats \X AudioBitrates, lv \in 0..MaxLimit,
          c \in ConcurrentChoices }

\* Any arguments a caller of the function may pass.
DirectRequests ==
    { [url |-> u, mode |-> m, quality_preset |-> q, audio_format |-> af,
       audio_bitrate |-> ab, limit |-> l, concurrent |-> c]
        : u \in Urls, m \in Modes \cup OtherModes,
          q \in {None} \cup {Some(p) : p \in QualityPresets \cup OtherPresets},
          af \in {None, Some("mp3")},
          ab \in {None, Some(<<"1", "9", "2", "k">>)},
          l \in {None, Some(0), Some(MaxLimit)}, c \in {SliderDefault} }

\* Entering process_download: "with tempfile.TemporaryDirectory() as tmp_dir".
Enter(r) ==
    /\ pc = "idle"
    /\ invocations < MaxInvocations
    /\ invocations' = invocations + 1
    /\ req' = r
    /\ tmpExists' = TRUE
    /\ files' = EmptyDir
    /\ opts' = None
    /\ engineCalls' = 0
    /\ engineError' = None
    /\ zipEntries' = None
    /\ archiveMB' = None
    /\ reads' = 0
    /\ trace' = <<>>
    /\ result' = None
    /\ exc' = None
    /\ ui' = {}
    /\ pc' = "config"
    /\ UNCHANGED ffmpeg

\* The button of the form is pressed with a non-empty URL.
Submit == \E r \in FormRequests : r.url # "" /\ Enter(r)

\* process_download is called with arbitrary arguments.
DirectCall == \E r \in DirectRequests : Enter(r)

\* ------------------------------------------------- leaving the with block

\* Whether tmp_dir exists after the with block is left, by a return
\* (raised = FALSE) or by an exception (raised = TRUE):
\* TemporaryDirectory.__exit__ removes it in both cases.
DirAfterExitLeaky(raised) == raised
DirAfterExit(raised) == FALSE

Return(res) ==
    /\ result' = Some(res)
    /\ exc' = None
    /\ tmpExists' = DirAfterExit(FALSE)
    /\ files' = IF tmpExists' THEN files ELSE EmptyDir
    /\ pc' = "returned"

Raise(e) ==
    /\ exc' = Some(e)
    /\ result' = None
    /\ tmpExists' = DirAfterExit(TRUE)
    /\ files' = IF tmpExists' THEN files ELSE EmptyDir
    /\ pc' = "raised"

\* --------------------------------------------------- building the options

OutTmpl == "tmp_dir/%(playlist_index)s - %(title)s.%(ext)s"

NoKeys == [k \in {} |-> 0]

BaseOpts(r) ==
    [outtmpl |-> OutTmpl,
     progress_hooks |-> <<"StreamlitProgressHook">>,
     ignoreerrors |-> TRUE,
     concurrent_fragment_downloads |-> r.concurrent,
     restrictfilenames |-> TRUE]

LimitOpts(r) == IF Truthy(r.limit) THEN [playlistend |-> Get(r.limit)] ELSE NoKeys

\* Mutants of VideoOpts: the "720p" branch misspelt; a default format for
\* a preset that matches no branch.
VideoOptsTypo(r) ==
    [merge_output_format |-> "mp4"] @@
    (IF r.quality_preset = Some("Best Available")
        THEN [format |-> "bestvideo+bestaudio/best"]
     ELSE IF r.quality_preset = Some("1080p")
        THEN [format |-> "bestvideo[height<=1080]+bestaudio/best[height<=1080]"]
     ELSE IF r.quality_preset = Some("720")
        THEN [format |-> "bestvideo[height<=720]+bestaudio/best[height<=720]"]
     ELSE IF r.quality_preset = Some("Worst (Low Data)")
        THEN [format |-> "worstvideo+worstaudio/worst"]
     ELSE NoKeys)

VideoOptsDefault(r) ==
    [merge_output_format |-> "mp4"] @@
    (IF r.quality_preset = Some("1080p")
        THEN [format |-> "bestvideo[height<=1080]+bestaudio/best[height<=1080]"]
     ELSE IF r.quality_preset = Some("720p")
        THEN [format |-> "bestvideo[height<=720]+bestaudio/best[height<=720]"]
     ELSE IF r.quality_preset = Some("Worst (Low Data)")
        THEN [format |-> "worstvideo+worstaudio/worst"]
     ELSE [format |-> "bestvideo+bestaudio/best"])

\* The branch "if mode == 'Video'": the merge directive, and a format for
\* each of the four presets; any other preset sets no format.
VideoOpts(r) ==
    [merge_output_format |-> "mp4"] @@
    (IF r.quality_preset = Some("Best Available")
        THEN [format |-> "bestvideo+bestaudio/best"]
     ELSE IF r.quality_preset = Some("1080p")
        THEN [format |-> "bestvideo[height<=1080]+bestaudio/best[height<=1080]"]
     ELSE IF r.quality_preset = Some("720p")
        THEN [format |-> "bestvideo[height<=720]+bestaudio/best[height<=720]"]
     ELSE IF r.quality_preset = Some("Worst (Low Data)")
        THEN [format |-> "worstvideo+worstaudio/worst"]
     ELSE NoKeys)

\* The else branch: audio_bitrate.replace("k", "") needs a string.
AudioRaises(r) == r.audio_bitrate = None

AudioOpts(r) ==
    [format |-> "bestaudio/best",
     postprocessors |->
        << [key |-> "FFmpegExtractAudio",
            preferredcodec |-> r.audio_format,
            preferredquality |-> StrReplace(Get(r.audio_bitrate), "k", <<>>)] >>]

ConfigRaises(r) == r.mode # "Video" /\ AudioRaises(r)

ConfigOpts(r) ==
    (IF r.mode = "Video" THEN VideoOpts(r) ELSE AudioOpts(r))
        @@ LimitOpts(r) @@ BaseOpts(r)

\* Lines 51-89 of process_download.
Configure ==
    /\ pc = "config"
    /\ trace' = Append(trace, "config")
    /\ IF ConfigRaises(req)
          THEN /\ Raise("AttributeError")
               /\ UNCHANGED opts
          ELSE /\ opts' = Some(ConfigOpts(req))
               /\ pc' = "download"
               /\ UNCHANGED <<result, exc, tmpExists, files>>
    /\ UNCHANGED <<req, ffmpeg, engineCalls, engineError, zipEntries, archiveMB,
                   reads, ui, invocations>>

\* ------------------------------------------------------------ the engine

Min(a, b) == IF a < b THEN a ELSE b

\* Items the engine retrieves at most: playlistend, when set.
ItemCeiling(o) ==
    IF "playlistend" \in DOMAIN o THEN Min(o.playlistend, MaxItems) ELSE MaxItems

EngineExceptions == {[type |-> "DownloadError", args |-> <<m>>] : m \in EngineErrors}

\* str(e) of an exception with one argument: that argument's text.
ExcStrGeneric(e) == "Download failed"
ExcStr(e) == e.args[1]

\* ydl.download([url]) raises: "except Exception as e: return False, str(e), None".
DownloadRaises ==
    /\ pc = "download"
    /\ engineCalls' = engineCalls + 1
    /\ trace' = Append(trace, "download")
    /\ \E e \in EngineExceptions :
          /\ engineError' = Some(e)
          /\ Return([status |-> FALSE, message |-> ExcStr(e), payload |-> None])
    /\ UNCHANGED <<req, ffmpeg, opts, zipEntries, archiveMB, reads, ui, invocations>>

\* ydl.download([url]) completes, having written zero or more media files
\* (ignoreerrors: a failed item is skipped).
DownloadCompletes ==
    /\ pc = "download"
    /\ engineCalls' = engineCalls + 1
    /\ trace' = Append(trace, "download")
    /\ \E items \in SUBSET (1..ItemCeiling(Get(opts))) :
       \E sz \in [items -> FileSizesMB] :
          files' = [n \in {ItemFile(i) : i \in items} |->
                        sz[CHOOSE i \in items : ItemFile(i) = n]]
    /\ pc' = "archive"
    /\ UNCHANGED <<req, ffmpeg, tmpExists, opts, engineError, zipEntries, archiveMB,
                   reads, result, exc, ui, invocations>>

\* ---------------------------------------------------------- the archiver

\* shutil.make_archive(tmp_dir/download_package, 'zip', tmp_dir): the zip is
\* opened for writing inside tmp_dir, then os.walk(tmp_dir) lists the files
\* to add, the zip among them.
ArchiveMembers(names) == names \cup {ZipName}

ArchiveRaises ==
    /\ pc = "archive"
    /\ trace' = Append(trace, "archive")
    /\ \E e \in IOErrors : Raise(e)
    /\ UNCHANGED <<req, ffmpeg, opts, engineCalls, engineError, zipEntries, archiveMB,
                   reads, ui, invocations>>

ArchiveCompletes ==
    /\ pc = "archive"
    /\ trace' = Append(trace, "archive")
    /\ LET mb == SumSizes(files, DOMAIN files)
       IN  /\ zipEntries' = Some(ArchiveMembers(DOMAIN files))
           /\ archiveMB' = Some(mb)
           /\ files' = (ZipName :> mb) @@ files
    /\ pc' = "materialize"
    /\ UNCHANGED <<req, ffmpeg, tmpExists, opts, engineCalls, engineError, reads,
                   result, exc, ui, invocations>>

\* The environment removes the archive before it is looked up (the case the
\* check "os.path.exists(final_zip_path)" guards against).
ArchiveVanishes ==
    /\ pc = "materialize"
    /\ ZipName \in DOMAIN files
    /\ files' = [n \in DOMAIN files \ {ZipName} |-> files[n]]
    /\ archiveMB' = None
    /\ UNCHANGED <<pc, req, ffmpeg, tmpExists, opts, engineCalls, engineError,
                   zipEntries, reads, trace, result, exc, ui, invocations>>

\* ------------------------------------------------------ reading the archive

\* The archive exists and is read: return True, "Success", zip_data.
MaterializeRead ==
    /\ pc = "materialize"
    /\ ZipName \in DOMAIN files
    /\ trace' = Append(trace, "read")
    /\ reads' = reads + 1
    /\ Return([status |-> TRUE, message |-> "Success",
               payload |-> Some([entries |-> Get(zipEntries), mb |-> files[ZipName]])])
    /\ UNCHANGED <<req, ffmpeg, opts, engineCalls, engineError, zipEntries, archiveMB,
                   ui, invocations>>

\* open() or f.read() raises (an I/O error, no memory for the bytes).
MaterializeReadRaises ==
    /\ pc = "materialize"
    /\ ZipName \in DOMAIN files
    /\ trace' = Append(trace, "read")
    /\ \E e \in IOErrors \cup {"MemoryError"} : Raise(e)
    /\ UNCHANGED <<req, ffmpeg, opts, engineCalls, engineError, zipEntries, archiveMB,
                   reads, ui, invocations>>

\* The archive does not exist: return False, "Zip file creation failed.", None.
MaterializeMissing ==
    /\ pc = "materialize"
    /\ ZipName \notin DOMAIN files
    /\ Return([status |-> FALSE, message |-> "Zip file creation failed.", payload |-> None])
    /\ UNCHANGED <<req, ffmpeg, opts, engineCalls, engineError, zipEntries, archiveMB,
                   reads, trace, ui, invocations>>

\* ------------------------------------------------------------ the caller

\* "if success: ... st.download_button(...) else: ... st.error(...)".
Render ==
    /\ pc = "returned"
    /\ ui' = IF Get(result).status THEN {"success", "download_button"} ELSE {"error"}
    /\ pc' = "idle"
    /\ UNCHANGED <<req, ffmpeg, tmpExists, files, opts, engineCalls, engineError,
                   zipEntries, archiveMB, reads, trace, result, exc, invocations>>

\* The exception leaves the script run: neither branch of "if success" runs.
ScriptAborts ==
    /\ pc = "raised"
    /\ ui' = {}
    /\ pc' = "idle"
    /\ UNCHANGED <<req, ffmpeg, tmpExists, files, opts, engineCalls, engineError,
                   zipEntries, archiveMB, reads, trace, result, exc, invocations>>

Pipeline ==
    \/ Configure
    \/ DownloadRaises
    \/ DownloadCompletes
    \/ ArchiveRaises
    \/ ArchiveCompletes
    \/ ArchiveVanishes
    \/ MaterializeRead
    \/ MaterializeReadRaises
    \/ MaterializeMissing
    \/ Render
    \/ ScriptAborts

\* The application: the form is the only caller.
Next == Submit \/ Pipeline

Spec == Init /\ [][Next]_vars

\* The function under any caller's arguments.
NextCall == DirectCall \/ Pipeline

SpecCall == Init /\ [][NextCall]_vars

Finished == pc \in {"returned", "raised"} \/ (pc = "idle" /\ invocations > 0)

\* ---------------------------------------------------------------- claims

Stages == {trace[i] : i \in DOMAIN trace}

\* C1: once an invocation of process_download has finished, by a return or
\* by an exception, its temporary directory no longer exists.
C1_WorkingAreaRemoved == Finished => (~tmpExists /\ DOMAIN files = {})

\* C1 witness: the archiver raised, the exception left process_download, and
\* the directory is gone.
C1_Witness ==
    /\ pc = "raised"
    /\ exc = Some("OSError")
    /\ trace = <<"config", "download", "archive">>
    /\ ~tmpExists

\* C2: every finished invocation has produced a result whose payload is
\* present exactly when it is a success, and the page then shows either the
\* download button or the error, not both and not neither.
C2_ExactlyOneOutcome ==
    Finished =>
        /\ result # None
        /\ (Get(result).payload # None) <=> Get(result).status
        /\ pc = "idle" => (("download_button" \in ui) # ("error" \in ui))

\* C3: with the media-conversion binary absent the engine is never invoked
\* and the invocation ends in a Failure result.
C3_MissingDependencyFailsFirst ==
    ~ffmpeg =>
        /\ engineCalls = 0
        /\ Finished => (result # None /\ ~Get(result).status)

\* C4: when download and archiving succeeded and the archive exists with
\* size S, the result is a Failure exactly when S exceeds the ceiling, and an
\* archive above the ceiling is never read.
C4_SizeGuard ==
    archiveMB # None =>
        /\ (Finished /\ result # None) =>
              (~Get(result).status <=> Get(archiveMB) > CeilingMB)
        /\ Get(archiveMB) > CeilingMB => "read" \notin Stages

\* C5: no exception escapes process_download.
C5_NoExceptionEscapes == exc = None /\ pc # "raised"

\* C6: the engine is invoked at most once in an invocation, and when it
\* raised, the result is a Failure whose message is the text of the engine's
\* exception, with no payload.
C6_EngineErrorVerbatimOnce ==
    /\ engineCalls <= 1
    /\ (engineError # None /\ Finished) =>
          result = Some([status |-> FALSE,
                         message |-> Get(engineError).args[1],
                         payload |-> None])

\* C6 witness: the engine raised and process_download has returned.
C6_Witness ==
    /\ pc = "returned"
    /\ engineError # None
    /\ engineCalls = 1
    /\ Get(result).message \in EngineErrors

StageOrder == <<"config", "download", "archive", "sizecheck", "read">>

\* C7: the stages of one invocation run in the order download, archiving,
\* size check, materialization: what has run is always a prefix of that order,
\* so the archive is read only after the size check.
C7_StagesInOrder ==
    /\ Len(trace) <= Len(StageOrder)
    /\ \A i \in DOMAIN trace : trace[i] = StageOrder[i]

\* C8: for every request of the form, the configuration has a non-empty
\* format; a Video configuration has merge_output_format and no
\* postprocessors, an Audio configuration has postprocessors and no
\* merge_output_format.
C8_ConfigurationByMode ==
    opts # None =>
        LET o == Get(opts) IN
        /\ "format" \in DOMAIN o
        /\ Len(o.format) > 0
        /\ req.mode = "Video" =>
              ("merge_output_format" \in DOMAIN o /\ "postprocessors" \notin DOMAIN o)
        /\ req.mode = "Audio" =>
              /\ "postprocessors" \in DOMAIN o
              /\ Len(o.postprocessors) > 0
              /\ "merge_output_format" \notin DOMAIN o

\* C8 witness: an Audio request at 192k is configured, its quality "192".
C8_Witness ==
    /\ opts # None
    /\ req.mode = "Audio"
    /\ req.audio_bitrate = Some(<<"1", "9", "2", "k">>)
    /\ Get(opts).postprocessors[1].preferredquality = <<"1", "9", "2">>

\* C9: the archive's entries are exactly the media files of the working
\* area; the archive itself is not an entry.
C9_ArchiveHoldsExactlyTheMedia ==
    (pc = "materialize" /\ zipEntries # None /\ ZipName \in DOMAIN files) =>
        /\ Get(zipEntries) = DOMAIN files \ {ZipName}
        /\ ZipName \notin Get(zipEntries)

\* C10: no request is rejected for its mode or preset: a Video request with
\* a preset outside the four gets no format and still reaches the engine, any
\* other mode is configured as Audio, and every Failure result comes after the
\* engine was invoked.
C10_NoPresetRejection ==
    /\ (opts # None /\ req.mode = "Video"
            /\ req.quality_preset \notin {Some(q) : q \in QualityPresets}) =>
          "format" \notin DOMAIN Get(opts)
    /\ (opts # None /\ req.mode # "Video") =>
          /\ "postprocessors" \in DOMAIN Get(opts)
          /\ "merge_output_format" \notin DOMAIN Get(opts)
          /\ Get(opts).format = "bestaudio/best"
    /\ (req.mode = "Video" /\ pc \notin {"config", "download"}) => engineCalls = 1
    /\ (result # None /\ ~Get(result).status) => engineCalls = 1

\* C10 witness: a Video request with the preset "4K" has no format and the
\* engine has been invoked for it.
C10_Witness ==
    /\ req.mode = "Video"
    /\ req.quality_preset = Some("4K")
    /\ opts # None
    /\ "format" \notin DOMAIN Get(opts)
    /\ engineCalls = 1

====
